---- MODULE Spec2Model ----
(***************************************************************************)
(* Model of FeSEM/Round-2/client.py: run_client (data balancing, integrity *)
(* check, connection retry loop) and the FeSEMClient handlers              *)
(* get_parameters / fit / evaluate that the coordinator invokes during a   *)
(* session.                                                                *)
(*                                                                         *)
(* Abstractions.  A weight set is the triple (src, shape, val): where the  *)
(* arrays come from, whether their shapes match the model built by         *)
(* build_model, and whether some array holds a NaN ("nan"), an infinite    *)
(* value but no NaN ("inf"), or neither ("finite").  A dataset is the      *)
(* label vector y together with a feature vector X of the same length      *)
(* whose rows are "x" (an original finite row), "nan" (an original row     *)
(* holding a NaN) or "s" (a synthetic row made by SMOTE).  Floats reported *)
(* by Keras are small naturals.  The library calls (SMOTE, Keras, flwr,    *)
(* grpc, np.save) are modelled by their outcome, chosen by the environment.*)
(***************************************************************************)
EXTENDS Integers, Sequences, FiniteSets, TLC

\* ---------------------------------------------------------------- bounds
MaxCount == 3        \* most samples of one class handed to run_client
MaxCalls == 2        \* handler invocations over the whole process
MaxLen == 5          \* longest label vector handed to the balancer alone
MaxLabel == 2        \* largest label in those vectors
MaxSessionCalls == 3 \* handler invocations when one dataset is followed

\* ------------------------------------------------------ program constants
max_retries == 10
retry_delay == 10

VARIABLES
    pc,               \* position of run_client
    callBudget,       \* handler invocations the server makes at most
    X_dev, y_dev,     \* the dataset run_client was called with
    X_labeled, y_labeled,  \* the dataset the client holds (after balancing)
    smoteCalls,       \* number of SMOTE.fit_resample invocations
    smoteLog,         \* per invocation: the k_neighbors passed, whether it raised
    model,            \* weights of the Keras model (closure variable)
    attempt,          \* loop variable of the retry loop
    attempts,         \* connection attempts started so far
    sleeps,           \* list of the delays slept so far
    everReady,        \* TRUE once some attempt's channel has become ready
    exc,              \* exception run_client terminated with
    round,            \* FeSEMClient.round of the current client object
    metrics_history,  \* FeSEMClient.metrics_history of the current client
    metrics_file,     \* contents of client_<device>_metrics.npy
    fitCalls,         \* fit invocations on the current client object
    nCalls,           \* handler invocations over the whole process
    last              \* the handler invocation made by the latest step, if any

vars == <<pc, callBudget, X_dev, y_dev, X_labeled, y_labeled, smoteCalls, smoteLog, model, attempt,
          attempts, sleeps, everReady, exc, round, metrics_history,
          metrics_file, fitCalls, nCalls, last>>

\* ------------------------------------------------------------ sequences
IsPrefix(s, t) == Len(s) <= Len(t) /\ SubSeq(t, 1, Len(s)) = s


Count(y, c) == Cardinality({i \in DOMAIN y : y[i] = c})
Present(y) == {y[i] : i \in DOMAIN y}

RECURSIVE Repeat(_, _)
Repeat(x, n) == IF n <= 0 THEN <<>> ELSE <<x>> \o Repeat(x, n - 1)

\* the label vectors run_client is started with: a samples of class 0
\* followed by b samples of class 1, where b is 0 or a - 1
LabelVectors ==
    UNION {{Repeat(0, a) \o Repeat(1, b) : b \in {0, a - 1}} : a \in 0 .. MaxCount}

SetMin(S) == CHOOSE m \in S : \A x \in S : m <= x
SetMax(S) == CHOOSE m \in S : \A x \in S : m >= x

\* ------------------------------------------------------------ balancing
\* class_dist.min() of a non-empty label vector (it is NaN for an empty one)
min_samples(y) == SetMin({Count(y, c) : c \in Present(y)})

\* variant: the - 1 is missing
k_neighbors_m(y) ==
    IF Present(y) = {} THEN 3
    ELSE IF min_samples(y) < 3 THEN min_samples(y) ELSE 3

\* min(3, min_samples - 1); for an empty label vector min_samples is NaN and
\* Python's min(3, nan) is 3
k_neighbors(y) ==
    IF Present(y) = {} THEN 3
    ELSE IF min_samples(y) - 1 < 3 THEN min_samples(y) - 1 ELSE 3

\* SMOTE(...).fit_resample raises for a target with fewer than two classes
\* and for features holding NaN
smote_raises(X, y) ==
    \/ Cardinality(Present(y)) < 2
    \/ \E i \in DOMAIN X : X[i] = "nan"

\* synthetic rows appended after the originals, class by class, until every
\* class has the count of the largest
RECURSIVE Synth(_, _, _)
Synth(y, cs, top) ==
    IF cs = {} THEN <<>>
    ELSE LET c == SetMin(cs)
         IN  Repeat(c, top - Count(y, c)) \o Synth(y, cs \ {c}, top)

fit_resample(X, y) ==
    LET top == SetMax({Count(y, c) : c \in Present(y)})
        new == Synth(y, Present(y), top)
    IN  [X |-> X \o [i \in 1 .. Len(new) |-> "s"], y |-> y \o new]

\* variant: the resampled data is dropped and the input returned
balance_data_with_smote_r(X, y) ==
    IF Present(y) # {} /\ min_samples(y) < 2
    THEN [X |-> X, y |-> y, smote |-> 0, k |-> 0, raised |-> FALSE]
    ELSE IF smote_raises(X, y)
         THEN [X |-> X, y |-> y, smote |-> 1, k |-> k_neighbors(y),
               raised |-> TRUE]
         ELSE [X |-> X, y |-> y, smote |-> 1, k |-> k_neighbors(y),
               raised |-> FALSE]

\* variant: the feasibility test compares with 1 instead of 2
balance_data_with_smote_m(X, y) ==
    IF Present(y) # {} /\ min_samples(y) < 1
    THEN [X |-> X, y |-> y, smote |-> 0, k |-> 0, raised |-> FALSE]
    ELSE IF smote_raises(X, y)
         THEN [X |-> X, y |-> y, smote |-> 1, k |-> k_neighbors(y),
               raised |-> TRUE]
         ELSE [X |-> fit_resample(X, y).X, y |-> fit_resample(X, y).y,
               smote |-> 1, k |-> k_neighbors(y), raised |-> FALSE]

\* balance_data_with_smote: the returned dataset and whether SMOTE was invoked
balance_data_with_smote(X, y) ==
    IF Present(y) # {} /\ min_samples(y) < 2        \* NaN < 2 is False
    THEN [X |-> X, y |-> y, smote |-> 0, k |-> 0, raised |-> FALSE]
    ELSE IF smote_raises(X, y)
         THEN [X |-> X, y |-> y, smote |-> 1, k |-> k_neighbors(y),
               raised |-> TRUE]
         ELSE [X |-> fit_resample(X, y).X, y |-> fit_resample(X, y).y,
               smote |-> 1, k |-> k_neighbors(y), raised |-> FALSE]

\* ------------------------------------------------------------ weight sets
Vals == {"finite", "nan", "inf"}
NoWeights == [src |-> "none", shape |-> "none", val |-> "none"]
InitialWeights == [src |-> "init", shape |-> "model", val |-> "finite"]
GlobalWeights ==
    [src : {"global"}, shape : {"model"}, val : Vals]
    \cup {[src |-> "global", shape |-> "other", val |-> "finite"]}
TrainedWeights == [src : {"trained"}, shape : {"model"}, val : {"finite", "nan"}]

\* what the coordinator hands to fit / evaluate
ParameterInputs ==
    [kind : {"ndarrays"}, w : GlobalWeights]
    \cup {[kind |-> "Parameters",
           w |-> [src |-> "global", shape |-> "model", val |-> "finite"]]}
    \cup [kind : {"unconvertible", "undecodable"}, w : {NoWeights}]

Metrics == {0, 1}     \* the losses model.evaluate reports in the model
EmptyHistory == [loss |-> <<>>, accuracy |-> <<>>, f1_score |-> <<>>]
NoCall == [op |-> "none", given |-> "none", env |-> "none", outcome |-> "none",
           err |-> "none", weights |-> NoWeights, n |-> 0, loss |-> 0,
           accuracy |-> 0, f1_score |-> 0, fallback |-> FALSE,
           class_weights |-> <<>>]

\* ------------------------------------------------------------------ Init
Init ==
    /\ pc = "start"
    /\ callBudget = MaxCalls
    /\ y_dev \in LabelVectors
    /\ X_dev \in {[i \in DOMAIN y_dev |-> "x"]}
                 \cup {[i \in DOMAIN y_dev |-> IF i = 1 THEN "nan" ELSE "x"]}
    /\ X_labeled = <<>>
    /\ y_labeled = <<>>
    /\ smoteCalls = 0
    /\ smoteLog = <<>>
    /\ model = NoWeights
    /\ attempt = 0
    /\ attempts = 0
    /\ sleeps = <<>>
    /\ everReady = FALSE
    /\ exc = "none"
    /\ round = 0
    /\ metrics_history = EmptyHistory
    /\ metrics_file = EmptyHistory
    /\ fitCalls = 0
    /\ nCalls = 0
    /\ last = NoCall

\* --------------------------------------------------- run_client, lines 77-98
\* balance the data, check its integrity, build the model
Prepare ==
    /\ pc = "start"
    /\ LET b == balance_data_with_smote(X_dev, y_dev)
           bad == \/ Len(b.X) = 0                      \* np.min of an empty array
                  \/ \E i \in DOMAIN b.X : b.X[i] = "nan"
       IN  /\ smoteCalls' = smoteCalls + b.smote
           /\ smoteLog' = IF b.smote = 1
                          THEN Append(smoteLog, [k |-> b.k, raised |-> b.raised])
                          ELSE smoteLog
           /\ X_labeled' = b.X
           /\ y_labeled' = b.y
           /\ IF bad
              THEN /\ pc' = "raised"
                   /\ exc' = "ValueError"
                   /\ model' = model
              ELSE /\ pc' = "connect"
                   /\ exc' = exc
                   /\ model' = InitialWeights
    /\ last' = NoCall
    /\ UNCHANGED <<callBudget, X_dev, y_dev, attempt, attempts, sleeps, everReady, round,
                   metrics_history, metrics_file, fitCalls, nCalls>>

\* ------------------------------------------------- FeSEMClient, 100-258
ndarrays_to_parameters(w) == [tensor_type |-> "numpy.ndarray", tensors |-> w]
parameters_to_ndarrays(p) == p.tensors

Call(op, parameters, outcome, err) ==
    [op |-> op, given |-> parameters.w.val, env |-> "none",
     outcome |-> outcome, err |-> err, weights |-> NoWeights, n |-> 0,
     loss |-> 0, accuracy |-> 0, f1_score |-> 0, fallback |-> FALSE,
     class_weights |-> <<>>]

NoParameters == [kind |-> "none", w |-> NoWeights]

\* get_parameters(config): only NaN is looked for (np.isnan)
get_parameters(mdl) ==
    IF mdl.val = "nan"
    THEN Call("get_parameters", NoParameters, "raise", "integrity")
    ELSE [Call("get_parameters", NoParameters, "return", "none")
             EXCEPT !.weights = mdl]

\* lines 126-140 and 187-201: conversion, decoding and model.set_weights;
\* the global weights the model now holds, or the stage that raised
receive(parameters) ==
    IF parameters.kind = "unconvertible" THEN [err |-> "convert", w |-> NoWeights]
    ELSE IF parameters.kind = "undecodable" THEN [err |-> "decode", w |-> NoWeights]
    ELSE LET p == IF parameters.kind = "Parameters"
                  THEN [tensor_type |-> "numpy.ndarray", tensors |-> parameters.w]
                  ELSE ndarrays_to_parameters(parameters.w)
             global_weights == parameters_to_ndarrays(p)
         IN  IF global_weights.shape # "model"
             THEN [err |-> "set_weights", w |-> NoWeights]
             ELSE [err |-> "none", w |-> global_weights]

\* what model.fit does: it raises, or it leaves the weights train.w in the
\* model and reports a loss history that is empty, holds NaN, or ends in
\* train.loss
TrainOutcomes ==
    [hist : {"ok"}, loss : {1}, w : TrainedWeights]
    \cup [hist : {"empty", "nan"}, loss : {0}, w : TrainedWeights]
    \cup [hist : {"raise"}, loss : {0}, w : {NoWeights}]

\* variant: the increment is missing
inc_round_m(rnd) == rnd

\* self.round += 1 (line 123)
inc_round(rnd) == rnd + 1

\* variant: the invalid history is raised instead of absorbed
soft_failure_m(parameters, hist, weights, X) ==
    [Call("fit", parameters, "raise", "train") EXCEPT !.env = hist]

\* lines 172-178: the soft failure hands back model.get_weights(), the size
\* of the held dataset and a loss of 0.0
soft_failure(parameters, hist, weights, X) ==
    [Call("fit", parameters, "return", "none")
        EXCEPT !.env = hist, !.weights = weights, !.n = Len(X), !.loss = 0,
               !.fallback = TRUE]

\* variant: num_classes is left out of the denominator
class_weights_m(y) ==
    IF Present(y) = {}
    THEN [i \in 0 .. 5 |-> [num |-> 1, den |-> 1]]
    ELSE [c \in Present(y) |-> [num |-> Len(y), den |-> Count(y, c)]]

\* lines 143-150 and 203-210: total_samples / (num_classes * v) for every
\* class present, as an exact fraction; 1.0 for the six known classes when
\* no class is present
class_weights(y) ==
    IF Present(y) = {}
    THEN [i \in 0 .. 5 |-> [num |-> 1, den |-> 1]]
    ELSE [c \in Present(y) |->
              [num |-> Len(y), den |-> Cardinality(Present(y)) * Count(y, c)]]

\* fit(parameters, config): the new round, the new model weights, the call
fit(rnd, mdl, X, y, parameters, train) ==
    LET r == inc_round(rnd)
        rcv == receive(parameters)
        cw == class_weights(y)
    IN  IF rcv.err # "none"
        THEN [round |-> r, model |-> mdl,
              call |-> Call("fit", parameters, "raise", rcv.err)]
        ELSE IF train.hist = "raise"
        THEN [round |-> r, model |-> rcv.w,
              call |-> [Call("fit", parameters, "raise", "train")
                           EXCEPT !.env = "raise", !.class_weights = cw]]
        ELSE IF train.hist \in {"empty", "nan"}
        THEN [round |-> r, model |-> train.w,
              call |-> [soft_failure(parameters, train.hist, train.w, X)
                           EXCEPT !.class_weights = cw]]
        ELSE [round |-> r, model |-> train.w,
              call |-> [Call("fit", parameters, "return", "none")
                           EXCEPT !.env = "ok", !.weights = train.w,
                                  !.n = Len(X), !.loss = train.loss,
                                  !.class_weights = cw]]

\* what model.evaluate / model.predict / f1_score do: some step raises, or
\* they report a loss, a weighted accuracy and a weighted F1
EvalOutcomes ==
    [res : {"ok"}, loss : Metrics, accuracy : {2}, f1_score : {3}]
    \cup [res : {"raise"}, loss : {0}, accuracy : {0}, f1_score : {0}]

\* variant: the except clause re-raises
ZeroMetrics_m(parameters, env) ==
    [Call("evaluate", parameters, "raise", "evaluate") EXCEPT !.env = env]

\* lines 224 and 249: the zero-metrics fallback
ZeroMetrics(parameters, env) ==
    [Call("evaluate", parameters, "return", "none")
        EXCEPT !.env = env, !.fallback = TRUE]

\* variant: the entries are tagged with the round after the current one
record_m(mh, rnd, ev) ==
    [loss |-> Append(mh.loss, <<rnd + 1, ev.loss>>),
     accuracy |-> Append(mh.accuracy, <<rnd + 1, ev.accuracy>>),
     f1_score |-> Append(mh.f1_score, <<rnd + 1, ev.f1_score>>)]

\* variant: the F1 entry is not appended
record_f(mh, rnd, ev) ==
    [loss |-> Append(mh.loss, <<rnd, ev.loss>>),
     accuracy |-> Append(mh.accuracy, <<rnd, ev.accuracy>>),
     f1_score |-> mh.f1_score]

\* lines 252-254: one (round, value) pair appended to each sequence
record(mh, rnd, ev) ==
    [loss |-> Append(mh.loss, <<rnd, ev.loss>>),
     accuracy |-> Append(mh.accuracy, <<rnd, ev.accuracy>>),
     f1_score |-> Append(mh.f1_score, <<rnd, ev.f1_score>>)]

\* evaluate(parameters, config); saveOk: np.save wrote the file
evaluate(rnd, mdl, X, y, mh, mf, parameters, ev, saveOk) ==
    LET rcv == receive(parameters)
        cw == class_weights(y)
    IN  IF rcv.err # "none"
        THEN [model |-> mdl, metrics_history |-> mh, metrics_file |-> mf,
              call |-> Call("evaluate", parameters, "raise", rcv.err)]
        ELSE IF Len(X) = 0 \/ Len(y) = 0
        THEN [model |-> rcv.w, metrics_history |-> mh, metrics_file |-> mf,
              call |-> [ZeroMetrics(parameters, "none")
                           EXCEPT !.class_weights = cw]]
        ELSE IF ev.res = "raise"
        THEN [model |-> rcv.w, metrics_history |-> mh, metrics_file |-> mf,
              call |-> [ZeroMetrics(parameters, "raise")
                           EXCEPT !.class_weights = cw]]
        ELSE IF ~saveOk
        THEN [model |-> rcv.w, metrics_history |-> record(mh, rnd, ev),
              metrics_file |-> mf,
              call |-> [Call("evaluate", parameters, "raise", "save")
                           EXCEPT !.env = "ok", !.class_weights = cw]]
        ELSE [model |-> rcv.w, metrics_history |-> record(mh, rnd, ev),
              metrics_file |-> record(mh, rnd, ev),
              call |-> [Call("evaluate", parameters, "return", "none")
                           EXCEPT !.env = "ok", !.n = Len(X),
                                  !.loss = ev.loss, !.accuracy = ev.accuracy,
                                  !.f1_score = ev.f1_score,
                                  !.class_weights = cw]]

\* ------------------------------------------- run_client, lines 260-284
\* variant: off by one, the last attempt sleeps too
retries_m(a) == a < max_retries

\* the except clause sleeps and retries while attempt < max_retries - 1
retries(a) == a < max_retries - 1

\* except Exception as e: (lines 277-284)
Except(e) ==
    IF retries(attempt)
    THEN /\ pc' = "sleep"
         /\ sleeps' = Append(sleeps, retry_delay)
         /\ exc' = exc
    ELSE /\ pc' = "raised"
         /\ sleeps' = sleeps
         /\ exc' = e

\* the channel does not become ready within the timeout (line 268 raises)
ConnectFail ==
    /\ pc = "connect"
    /\ attempts' = attempts + 1
    /\ Except("timeout")
    /\ last' = NoCall
    /\ UNCHANGED <<callBudget, X_dev, y_dev, X_labeled, y_labeled, smoteCalls, smoteLog,
                   model,
                   attempt, everReady, round, metrics_history, metrics_file,
                   fitCalls, nCalls>>

\* the channel is ready; a new FeSEMClient is constructed (line 271) and the
\* session starts
ConnectReady ==
    /\ pc = "connect"
    /\ everReady' = TRUE
    /\ attempts' = attempts + 1
    /\ round' = 0
    /\ metrics_history' = EmptyHistory
    /\ fitCalls' = 0
    /\ pc' = "session"
    /\ last' = NoCall
    /\ UNCHANGED <<callBudget, X_dev, y_dev, X_labeled, y_labeled, smoteCalls, smoteLog,
                   model,
                   attempt, sleeps, exc, metrics_file, nCalls>>

\* time.sleep(retry_delay) returns; next iteration of the for loop, or the
\* loop is exhausted and run_client returns
Wake ==
    /\ pc = "sleep"
    /\ attempt' = attempt + 1
    /\ pc' = IF attempt + 1 < max_retries THEN "connect" ELSE "done"
    /\ last' = NoCall
    /\ UNCHANGED <<callBudget, X_dev, y_dev, X_labeled, y_labeled, smoteCalls, smoteLog,
                   model,
                   attempts, sleeps, everReady, exc, round, metrics_history,
                   metrics_file, fitCalls, nCalls>>

\* start_numpy_client returns; channel.close(); break
SessionEnd ==
    /\ pc = "session"
    /\ pc' = "done"
    /\ last' = NoCall
    /\ UNCHANGED <<callBudget, X_dev, y_dev, X_labeled, y_labeled, smoteCalls, smoteLog,
                   model,
                   attempt, attempts, sleeps, everReady, exc, round,
                   metrics_history, metrics_file, fitCalls, nCalls>>

\* start_numpy_client raises because the connection to the server is lost
SessionDrop ==
    /\ pc = "session"
    /\ Except("rpc")
    /\ last' = NoCall
    /\ UNCHANGED <<callBudget, X_dev, y_dev, X_labeled, y_labeled, smoteCalls, smoteLog,
                   model,
                   attempt, attempts, everReady, round, metrics_history,
                   metrics_file, fitCalls, nCalls>>

\* A handler returned or raised.  An exception raised by a handler either
\* leaves start_numpy_client (escapes) and reaches the except clause of the
\* retry loop, or is turned into an error reply by the library and the
\* session goes on; which one depends on the installed flwr release.
AfterCall(call, escapes) ==
    /\ last' = call
    /\ nCalls' = nCalls + 1
    /\ IF call.outcome = "raise" /\ escapes
       THEN Except(call.err)
       ELSE UNCHANGED <<pc, sleeps, exc>>

\* the ways an exception of the call can travel; a call that returns has none
Escapes(call) == IF call.outcome = "raise" THEN BOOLEAN ELSE {FALSE}

\* the outcomes of a step the handler reaches only when set_weights succeeded
Reached(parameters, outcomes, unreached) ==
    IF receive(parameters).err = "none" THEN outcomes ELSE {unreached}

\* variant: get_parameters counts as a round
GetParameters_m ==
    /\ pc = "session"
    /\ nCalls < callBudget
    /\ \E escapes \in Escapes(get_parameters(model)) :
          AfterCall(get_parameters(model), escapes)
    /\ round' = round + 1
    /\ UNCHANGED <<callBudget, X_dev, y_dev, X_labeled, y_labeled, smoteCalls, smoteLog,
                   model, attempt, attempts, everReady, metrics_history,
                   metrics_file, fitCalls>>

GetParameters ==
    /\ pc = "session"
    /\ nCalls < callBudget
    /\ \E escapes \in Escapes(get_parameters(model)) :
          AfterCall(get_parameters(model), escapes)
    /\ UNCHANGED <<callBudget, X_dev, y_dev, X_labeled, y_labeled, smoteCalls, smoteLog,
                   model,
                   attempt, attempts, everReady, round, metrics_history,
                   metrics_file, fitCalls>>

Fit ==
    /\ pc = "session"
    /\ nCalls < callBudget
    /\ \E parameters \in ParameterInputs :
       \E train \in Reached(parameters, TrainOutcomes,
                            [hist |-> "raise", loss |-> 0, w |-> NoWeights]) :
          LET res == fit(round, model, X_labeled, y_labeled, parameters,
                         train)
          IN  \E escapes \in Escapes(res.call) :
                  /\ round' = res.round
                  /\ model' = res.model
                  /\ AfterCall(res.call, escapes)
    /\ fitCalls' = fitCalls + 1
    /\ UNCHANGED <<callBudget, X_dev, y_dev, X_labeled, y_labeled, smoteCalls, smoteLog,
                   attempt,
                   attempts, everReady, metrics_history, metrics_file>>

Evaluate ==
    /\ pc = "session"
    /\ nCalls < callBudget
    /\ \E parameters \in ParameterInputs :
       \E ev \in Reached(parameters, EvalOutcomes,
                         [res |-> "raise", loss |-> 0, accuracy |-> 0,
                          f1_score |-> 0]) :
       \E saveOk \in IF ev.res = "ok" THEN BOOLEAN ELSE {TRUE} :
          LET res == evaluate(round, model, X_labeled, y_labeled,
                              metrics_history, metrics_file, parameters, ev,
                              saveOk)
          IN  \E escapes \in Escapes(res.call) :
                  /\ model' = res.model
                  /\ metrics_history' = res.metrics_history
                  /\ metrics_file' = res.metrics_file
                  /\ AfterCall(res.call, escapes)
    /\ UNCHANGED <<callBudget, X_dev, y_dev, X_labeled, y_labeled, smoteCalls, smoteLog,
                   attempt,
                   attempts, everReady, round, fitCalls>>

Next ==
    \/ Prepare
    \/ ConnectFail
    \/ ConnectReady
    \/ Wake
    \/ SessionEnd
    \/ SessionDrop
    \/ GetParameters
    \/ Fit
    \/ Evaluate

Spec == Init /\ [][Next]_vars

\* ------------------------------------------------ the balancer alone
\* balance_data_with_smote applied to every label vector over 0 .. MaxLabel
\* of length at most MaxLen, with finite features or a NaN in the first row
RECURSIVE SeqsUpTo(_, _)
SeqsUpTo(S, n) ==
    IF n = 0 THEN {<<>>}
    ELSE LET shorter == SeqsUpTo(S, n - 1)
         IN  shorter \cup {Append(t, x) : t \in {u \in shorter : Len(u) = n - 1},
                                          x \in S}

AllLabelVectors == SeqsUpTo(0 .. MaxLabel, MaxLen)

InitBalance ==
    /\ pc = "start"
    /\ callBudget = MaxCalls
    /\ y_dev \in AllLabelVectors
    /\ X_dev \in {[i \in DOMAIN y_dev |-> "x"]}
                 \cup {[i \in DOMAIN y_dev |-> IF i = 1 THEN "nan" ELSE "x"]}
    /\ X_labeled = <<>>
    /\ y_labeled = <<>>
    /\ smoteCalls = 0
    /\ smoteLog = <<>>
    /\ model = NoWeights
    /\ attempt = 0
    /\ attempts = 0
    /\ sleeps = <<>>
    /\ everReady = FALSE
    /\ exc = "none"
    /\ round = 0
    /\ metrics_history = EmptyHistory
    /\ metrics_file = EmptyHistory
    /\ fitCalls = 0
    /\ nCalls = 0
    /\ last = NoCall

NextBalance == Prepare

SpecBalance == InitBalance /\ [][NextBalance]_vars

\* ------------------------------------------------ one dataset followed
\* run_client on one dataset that passes the start-up checks, with up to
\* MaxSessionCalls handler invocations
InitSession ==
    /\ pc = "start"
    /\ callBudget = MaxSessionCalls
    /\ y_dev = <<0, 0, 1>>
    /\ X_dev = [i \in DOMAIN y_dev |-> "x"]
    /\ X_labeled = <<>>
    /\ y_labeled = <<>>
    /\ smoteCalls = 0
    /\ smoteLog = <<>>
    /\ model = NoWeights
    /\ attempt = 0
    /\ attempts = 0
    /\ sleeps = <<>>
    /\ everReady = FALSE
    /\ exc = "none"
    /\ round = 0
    /\ metrics_history = EmptyHistory
    /\ metrics_file = EmptyHistory
    /\ fitCalls = 0
    /\ nCalls = 0
    /\ last = NoCall

SpecSession == InitSession /\ [][Next]_vars

\* ======================================================================
\* Properties
\* ======================================================================
MetricNames == {"loss", "accuracy", "f1_score"}
HandlerStep == last'.op # "none"

\* C1: while no attempt's channel has become ready, run_client makes at most
\* 10 attempts, sleeps 10 units after each failed attempt but the last, does
\* not return normally, and when it terminates it has made exactly 10
\* attempts and 9 delays and raises the connection error of the 10th.
C1_NeverReadyTenAttempts ==
    ~everReady =>
        /\ attempts <= 10
        /\ pc # "done"
        /\ Len(sleeps) <= 9
        /\ \A i \in DOMAIN sleeps : sleeps[i] = 10
        /\ pc = "connect" => Len(sleeps) = attempts
        /\ pc = "sleep" => Len(sleeps) = attempts
        /\ (pc = "raised" /\ attempts > 0) =>
              attempts = 10 /\ Len(sleeps) = 9 /\ exc = "timeout"

C1_Witness ==
    pc = "raised" /\ ~everReady /\ attempts = 10 /\ exc = "timeout"

\* C2 (as claimed): over the whole process, reconnections included, the
\* round number the handlers see never decreases and is never reset to 0.
C2_RoundNeverDecreases == [][round' >= round]_vars

\* C3 (as claimed): an integrity or conversion error raised by a handler
\* terminates run_client with that error, with no retry delay and no further
\* attempt.
C3_HandlerErrorTerminates ==
    [][(HandlerStep /\ last'.outcome = "raise"
          /\ last'.err \in {"integrity", "convert", "decode"})
        => (pc' = "raised" /\ exc' = last'.err)]_vars

\* C4 (as claimed): fit and evaluate reject global parameters holding NaN or
\* an infinite value with an integrity error, and get_parameters and fit
\* never hand back weights holding NaN or an infinite value.
C4_IntegrityAtBothBoundaries ==
    /\ (last.op \in {"fit", "evaluate"} /\ last.given \in {"nan", "inf"})
          => (last.outcome = "raise" /\ last.err = "integrity")
    /\ (last.op \in {"get_parameters", "fit"} /\ last.outcome = "return")
          => last.weights.val = "finite"

\* C5 (as claimed): every write of the metrics file stores sequences that
\* have the previously persisted sequences as prefixes, reconnections
\* included.
C5_PersistedAppendOnly ==
    [][\A m \in MetricNames : IsPrefix(metrics_file[m], metrics_file'[m])]_vars

SomeClassBelowTwo(y) == \E c \in Present(y) : Count(y, c) < 2

C7_RoundCountsFitCalls ==
    /\ round = fitCalls
    /\ last.op = "fit" => round >= 1

C7_Witness ==
    /\ last.op = "fit" /\ last.outcome = "raise" /\ fitCalls = 2

Appended(mh, rnd, call) ==
    [loss |-> Append(mh.loss, <<rnd, call.loss>>),
     accuracy |-> Append(mh.accuracy, <<rnd, call.accuracy>>),
     f1_score |-> Append(mh.f1_score, <<rnd, call.f1_score>>)]

\* C9 (as claimed): a handler call changes metrics_history only when it is
\* an evaluate that returns a non-fallback result, which appends one pair
\* tagged with the round to each sequence; an evaluate that raises leaves it
\* unchanged.
C9_HistoryChangesOnSuccessOnly ==
    [][HandlerStep =>
         IF last'.op = "evaluate" /\ last'.outcome = "return" /\ ~last'.fallback
         THEN metrics_history' = Appended(metrics_history, round, last')
         ELSE metrics_history' = metrics_history]_vars

\* C10: when training reports an empty or NaN loss history, fit returns the
\* model's current weights, the size of the held dataset and a loss of 0,
\* and the session goes on.
C10_SoftTrainingFailure ==
    (last.op = "fit" /\ last.env \in {"empty", "nan"}) =>
        /\ last.outcome = "return"
        /\ last.weights = model
        /\ last.n = Len(X_labeled)
        /\ last.loss = 0
        /\ pc = "session"

C10_Witness ==
    /\ last.op = "fit" /\ last.env = "nan" /\ last.outcome = "return"
    /\ nCalls = 2 /\ Len(X_labeled) = 3

\* ConnectionState of the ConnectionManager, read off the position of
\* run_client
ConnectionState ==
    IF pc = "connect" THEN "Connecting"
    ELSE IF pc = "session" THEN "Ready"
    ELSE "Disconnected"

\* C11: a session starts only from a connection attempt whose channel became
\* ready, the handlers run only during a session, a normal end of the session
\* is final (no further attempt, no further delay), and an execution that
\* enters the retry loop makes between 1 and 10 attempts.
C11_ConnectionStateMachine ==
    /\ [](/\ attempts <= 10
          /\ (pc \in {"session", "sleep", "done"}
                \/ (pc = "raised" /\ exc # "ValueError")) => attempts >= 1
          /\ ConnectionState = "Ready" => everReady
          /\ last.op # "none" => everReady)
    /\ [][/\ (ConnectionState' = "Ready" /\ ConnectionState # "Ready")
                => (ConnectionState = "Connecting" /\ attempts' = attempts + 1)
          /\ HandlerStep => ConnectionState = "Ready"
          /\ pc' = "done" => ConnectionState = "Ready"
          /\ pc = "done" => (attempts' = attempts /\ sleeps' = sleeps /\ pc' = "done")
          /\ ConnectionState = "Disconnected" => ConnectionState' # "Ready"]_vars

C11_Witness ==
    pc = "done" /\ attempts = 10 /\ Len(sleeps) = 9 /\ nCalls = 2

\* C12: get_parameters leaves the round unchanged, whether it returns the
\* weights or fails the integrity check.
C12_GetParametersKeepsRound ==
    [][(HandlerStep /\ last'.op = "get_parameters")
         => (round' = round /\ round' = fitCalls')]_vars

C12_Witness ==
    /\ last.op = "get_parameters" /\ last.outcome = "raise"
    /\ last.err = "integrity" /\ round = 1

\* C13: for a label vector in which some class has fewer than 2 samples the
\* balancer returns exactly the features and labels it was given and does
\* not invoke the synthesis.
C13_SmallClassUnchanged ==
    (pc # "start" /\ SomeClassBelowTwo(y_dev)) =>
        /\ X_labeled = X_dev
        /\ y_labeled = y_dev
        /\ smoteCalls = 0
        /\ smoteLog = <<>>

C13_Witness ==
    pc = "connect" /\ y_dev = <<0, 0, 0, 0, 1>> /\ y_labeled = y_dev

AllAtLeastTwo(y) == \A c \in Present(y) : Count(y, c) >= 2
IsMaxCount(y, m) ==
    /\ \A c \in Present(y) : Count(y, c) <= m
    /\ \E c \in Present(y) : Count(y, c) = m
NoClassShrinks ==
    \A c \in Present(y_dev) : Count(y_labeled, c) >= Count(y_dev, c)
AllAtMaxCount ==
    \A c \in Present(y_dev) : IsMaxCount(y_dev, Count(y_labeled, c))

\* C14 (as claimed): for a label vector in which every class has at least 2
\* samples, every class count of the returned dataset equals the largest
\* class count of the input and no class shrinks, whatever the synthesis
\* does, a synthesis that raises included.
C14_BalancedWhateverSynthesisDoes ==
    (pc # "start" /\ AllAtLeastTwo(y_dev)) =>
        (AllAtMaxCount /\ NoClassShrinks)

\* C14 (amended): for such a label vector no class shrinks; when the
\* synthesis succeeds every class count of the returned dataset equals the
\* largest class count of the input, and when it raises the balancer returns
\* the dataset it was given.
C14_BalancedUnlessSynthesisRaises ==
    (pc # "start" /\ AllAtLeastTwo(y_dev)) =>
        /\ NoClassShrinks
        /\ Len(smoteLog) = 1
        /\ IF smoteLog[1].raised
           THEN X_labeled = X_dev /\ y_labeled = y_dev
           ELSE /\ AllAtMaxCount
                /\ Present(y_labeled) = Present(y_dev)
                /\ Len(X_labeled) = Len(y_labeled)
                /\ IsPrefix(y_dev, y_labeled) /\ IsPrefix(X_dev, X_labeled)

C14_Witness ==
    /\ pc = "connect" /\ y_dev = <<0, 1, 0, 1, 0>>
    /\ Len(smoteLog) = 1 /\ ~smoteLog[1].raised
    /\ y_labeled = <<0, 1, 0, 1, 0, 1>>

\* C16: whenever the balancer invokes the synthesis, the k_neighbors it
\* passes is min(3, minCount - 1) (3 when there is no sample at all), so
\* 1 <= k <= 3 and k is below the count of every class.
C16_NeighbourParameter ==
    \A i \in DOMAIN smoteLog :
        LET k == smoteLog[i].k
        IN  /\ 1 <= k /\ k <= 3
            /\ \A c \in Present(y_dev) : k <= Count(y_dev, c) - 1
            /\ \/ k = 3
               \/ \E c \in Present(y_dev) : k = Count(y_dev, c) - 1

C16_Witness ==
    /\ Len(smoteLog) = 1 /\ smoteLog[1].k = 1 /\ ~smoteLog[1].raised
    /\ Len(y_labeled) > Len(y_dev)

\* sum over the classes cs of weight(c) * count(c), as a fraction
RECURSIVE WeightedCount(_, _, _)
WeightedCount(cw, y, cs) ==
    IF cs = {} THEN [num |-> 0, den |-> 1]
    ELSE LET c == CHOOSE x \in cs : TRUE
             rest == WeightedCount(cw, y, cs \ {c})
         IN  [num |-> cw[c].num * Count(y, c) * rest.den + rest.num * cw[c].den,
              den |-> cw[c].den * rest.den]

WeightsComputed ==
    last.op \in {"fit", "evaluate"} /\ DOMAIN last.class_weights # {}

\* C15 (as claimed): the class weights computed by fit and evaluate are
\* strictly positive and the sum over the present classes of
\* weight(c) * count(c) is totalSamples * numClasses.
C15_WeightedCountTimesClasses ==
    WeightsComputed =>
        LET cw == last.class_weights
            sum == WeightedCount(cw, y_labeled, Present(y_labeled))
        IN  /\ \A c \in DOMAIN cw : cw[c].num > 0 /\ cw[c].den > 0
            /\ sum.num = Len(y_labeled) * Cardinality(Present(y_labeled)) * sum.den

\* C15 (amended): the class weights computed by fit and evaluate are
\* totalSamples / (numClasses * count(c)) for every present class, strictly
\* positive, and the sum over the present classes of weight(c) * count(c)
\* is totalSamples.
C15_WeightedCountIsTotal ==
    WeightsComputed =>
        LET cw == last.class_weights
            sum == WeightedCount(cw, y_labeled, Present(y_labeled))
        IN  /\ DOMAIN cw = Present(y_labeled)
            /\ \A c \in DOMAIN cw :
                  /\ cw[c].num > 0 /\ cw[c].den > 0
                  /\ cw[c].num = Len(y_labeled)
                  /\ cw[c].den = Cardinality(Present(y_labeled)) * Count(y_labeled, c)
            /\ sum.num = Len(y_labeled) * sum.den

C15_Witness ==
    /\ last.op = "fit" /\ y_labeled = <<0, 0, 1>>
    /\ DOMAIN last.class_weights = {0, 1}
    /\ last.class_weights[0] = [num |-> 3, den |-> 4]
    /\ last.class_weights[1] = [num |-> 3, den |-> 2]

\* C17: evaluate never changes the round; every entry it appends to the
\* metrics history carries the number of fit calls made so far on this
\* client instance, and the round indices of each metric sequence never
\* decrease in append order.
C17_EvaluateKeepsRound ==
    /\ [](\A m \in MetricNames :
             \A i, j \in DOMAIN metrics_history[m] :
                 i <= j => metrics_history[m][i][1] <= metrics_history[m][j][1])
    /\ [][(HandlerStep /\ last'.op = "evaluate") =>
             /\ round' = round
             /\ \A m \in MetricNames :
                   \A i \in DOMAIN metrics_history'[m] :
                       i > Len(metrics_history[m])
                           => metrics_history'[m][i][1] = fitCalls']_vars

C17_Witness ==
    /\ last.op = "evaluate" /\ last.outcome = "return" /\ ~last.fallback
    /\ round = 1 /\ fitCalls = 1
    /\ metrics_history.accuracy = <<<<0, 2>>, <<1, 2>>>>

\* C18: the loss, accuracy and f1_score sequences of the metrics history
\* always have the same length and the same round index at each position.
C18_SequencesAligned ==
    \A m, n \in MetricNames :
        /\ Len(metrics_history[m]) = Len(metrics_history[n])
        /\ \A i \in DOMAIN metrics_history[m] :
              metrics_history[m][i][1] = metrics_history[n][i][1]

C18_Witness ==
    /\ Len(metrics_history.loss) = 2 /\ Len(metrics_history.f1_score) = 2
    /\ metrics_history.loss[1][1] = 0 /\ metrics_history.f1_score[2][1] = 1
    /\ pc = "done"

====
